---- MODULE Spec2Model ----
(***************************************************************************)
(* Turn synchronisation core of the game client:                           *)
(*   LocalServer        src/src/client/InputHandler.ts  (lines 1006-1422)  *)
(*   ClientGameRunner   src/src/client/ClientGameRunner.ts                 *)
(*   Transport          src/unnamed/part_007                               *)
(* and, around it, the page:                                               *)
(*   Client             src/unnamed/part_005  (join-lobby / leave-lobby)   *)
(*   MultiTabDetector   src/unnamed/part_009                               *)
(* One game session is modelled.  Its mode is fixed at construction:       *)
(* "remote" (Transport.isLocal = false), "single" (local, no gameRecord)   *)
(* or "replay" (local, lobbyConfig.gameRecord present).                    *)
(***************************************************************************)
EXTENDS Integers, Sequences, FiniteSets, TLC

(* ------------------------------ bounds ------------------------------- *)
MaxTurns == 3          \* turns a LocalServer may emit in one behaviour
MaxIntents == 2        \* intents the player submits in one behaviour
MaxReplayLen == 2      \* longest archived turn list
MaxHash == 1           \* hashes are drawn from {0, MaxHash}
MaxElapsed == 300      \* saturation of Date.now() - turnStartTime
ClockStep == 100       \* granularity of the modelled wall clock (ms)
MaxTurnNumber == 2     \* largest turnNumber the remote peer sends
MaxBatch == 2          \* longest turns[] of a `start` message
MaxHanded == 2         \* inbound messages stop once this many turns were handed over
MaxBuffer == 2         \* messages the outbound buffer may hold
MaxWire == 2           \* a socket this far into its output sends no more after its open
MaxUploads == 2        \* the user stops the game only while fewer archive uploads were made
MaxTabs == 2           \* browser tabs that run the page
MaxPunishments == 2    \* a tab is punished at most this often in one behaviour
MaxLobbies == 5        \* join-lobby events the page receives in one behaviour

(* ------------------------- program constants ------------------------- *)
turnIntervalMs == 100
HashSampleInterval == 100
NoHash == -1           \* Turn.hash undefined / null
CloseCodes == {1000, 1002, 1006}   \* normal, policy violation, abnormal

Hashes == {0, MaxHash}
Modes == {"remote", "single", "replay"}
ReplaySpeedMultiplier == {"slow", "normal", "fast", "fastest"}
defaultReplaySpeedMultiplier == "normal"

VARIABLES
  mode,                  \* Transport.isLocal / lobbyConfig.gameRecord
  started,               \* ClientGameRunner.start() has run
  gameRecordTurns,       \* decompressGameRecord(lobbyConfig.gameRecord).turns
  \* LocalServer
  replayTurns, turns, intents, paused, replaySpeedMultiplier,
  turnsExecuted, sinceTurnStart, timerOn, archiveUploads, desyncs,
  \* ClientGameRunner and its simulation worker
  isActive, turnsSeen, hasJoined, handed, workerDone, wrongTurn,
  \* Transport (remote)
  socket, onclose, buffer, wire, refused, superseded,
  \* ClientGameRunner connection check (watchdog)
  watchdog, sinceMessage,
  \* history
  nextIntent, accepted, pausedIntents, lastHash,
  \* Transport: inbound frames
  droppedAt,
  \* the LocalServer that joinLobby's connect creates
  lobbyTimer, lobbyTurns,
  \* Client (the page)
  gameStop, lobbies, awaiting,
  \* MultiTabDetector, one per tab, and the localStorage they share
  lock, heartbeatTimer, isPunished, punishmentCount, storageEvents

lsVars == <<replayTurns, turns, intents, paused, replaySpeedMultiplier,
            turnsExecuted, sinceTurnStart, timerOn, archiveUploads, desyncs>>
runnerVars == <<isActive, turnsSeen, hasJoined, handed, workerDone, wrongTurn>>
transportVars == <<socket, onclose, buffer, wire>>
\* refused: the current socket was closed with code 1002 and onclose
\*   raised the "connection refused" alert
\* watchdog: "unset", "pending" (the 20 s setTimeout of start() has not fired),
\*   "on" (connectionCheckInterval is set), "off" (cleared by stop())
\* sinceMessage: Date.now() - lastMessageTime: "within" the 5000 ms window,
\*   "expired" (beyond it by less than one 1000 ms check period), "overdue"
\* superseded: the socket the transport replaced last: its readyState and
\*   whether its onopen / onmessage / onclose handlers are still set
\*   (NoSocket once it is closed and without handlers)
sessionVars == <<refused, superseded, watchdog, sinceMessage>>
histVars == <<nextIntent, accepted, pausedIntents, lastHash>>
\* droppedAt: the turns-seen counter at the last "Error parsing server
\*   message" / "Error in onmessage handler" log (part_007:504-505, 509-510)
inboundVars == <<droppedAt>>
\* lobbyTimer: turnCheckInterval of the LocalServer that joinLobby's
\*   transport.connect creates: "unset", "on", "off" (cleared by endGame)
\* lobbyTurns: the turns that LocalServer has emitted
lobbyVars == <<lobbyTimer, lobbyTurns>>
\* lobbies: the sessions joinLobby has created, in order, each "live" or
\*   "stopped" (its stop function was called)
\* gameStop: Client.gameStop: the index of the session whose stop function
\*   it holds, 0 for null
\* awaiting: handleJoinLobby calls suspended at `await getServerConfigFromClient()`
clientVars == <<gameStop, lobbies, awaiting>>
\* lock: localStorage["multi-tab-lock"]: its owner (0: no item) and whether
\*   now - timestamp is within staleThresholdMs
\* heartbeatTimer[t]: "idle" (constructed), "on" (startMonitoring has set the
\*   interval), "stopped" (stopMonitoring has run)
\* storageEvents[t]: owners of the lock values whose storage event has not
\*   yet been dispatched in tab t
tabVars == <<lock, heartbeatTimer, isPunished, punishmentCount, storageEvents>>
otherVars == <<inboundVars, lobbyVars, clientVars, tabVars>>
gameVars == <<mode, started, gameRecordTurns, lsVars, runnerVars, transportVars,
              histVars, sessionVars>>
vars == <<gameVars, otherVars>>

isLocal == mode # "remote"
hasGameRecord == mode = "replay"

(* ------------------------------ helpers ------------------------------ *)
Min(a, b) == IF a < b THEN a ELSE b

RECURSIVE SeqsUpTo(_, _)
SeqsUpTo(S, n) ==
  IF n = 0 THEN {<<>>}
  ELSE LET shorter == SeqsUpTo(S, n - 1)
       IN shorter \cup {Append(s, x) : s \in {t \in shorter : Len(t) = n - 1}, x \in S}

RECURSIVE Flatten(_)
Flatten(ts) ==
  IF ts = <<>> THEN <<>> ELSE ts[1].intents \o Flatten(Tail(ts))

RECURSIVE Reverse(_)
Reverse(s) == IF s = <<>> THEN <<>> ELSE Append(Reverse(Tail(s)), Head(s))

Range(s) == {s[i] : i \in 1..Len(s)}

\* intents that do not come from the local player
ArchivedIntent == MaxIntents + 1
ServerIntent == MaxIntents + 2

MkTurn(n, is) == [turnNumber |-> n, intents |-> is, hash |-> NoHash]

ArchivedTurns ==
  [intents : {<<>>, <<ArchivedIntent>>}, hash : {NoHash} \cup Hashes]

\* turnIntervalMs() * replaySpeedMultiplier
ScaledInterval(m) ==
  CASE m = "slow" -> turnIntervalMs * 2
    [] m = "normal" -> turnIntervalMs
    [] m = "fast" -> turnIntervalMs \div 2
    [] m = "fastest" -> 0

\* the last "got wrong turn" error logged (ClientGameRunner.ts:375-377)
NoWrongTurn == [have |-> NoHash, received |-> NoHash]

Tabs == 1..MaxTabs

NoLock == [owner |-> 0, fresh |-> FALSE]

NoSocket == [state |-> "null", handlers |-> FALSE]

NoReport ==
  [turn |-> NoHash, hash |-> NoHash, outcome |-> "none", executed |-> NoHash]

(* ------------------------------- Init -------------------------------- *)
Init ==
  /\ mode \in Modes
  /\ started = FALSE
  /\ gameRecordTurns \in
       (IF mode = "replay" THEN SeqsUpTo(ArchivedTurns, MaxReplayLen) ELSE {<<>>})
  /\ replayTurns = <<>>
  /\ turns = <<>>
  /\ intents = <<>>
  /\ paused = FALSE
  /\ replaySpeedMultiplier = defaultReplaySpeedMultiplier
  /\ turnsExecuted = 0
  /\ sinceTurnStart = MaxElapsed
  /\ timerOn = FALSE
  /\ archiveUploads = 0
  /\ desyncs = {}
  /\ isActive = FALSE
  /\ turnsSeen = 0
  /\ hasJoined = FALSE
  /\ handed = <<>>
  /\ workerDone = 0
  /\ wrongTurn = NoWrongTurn
  /\ socket = "null"
  /\ onclose = "unset"
  /\ buffer = <<>>
  /\ wire = <<>>
  /\ refused = FALSE
  /\ superseded = NoSocket
  /\ watchdog = "unset"
  /\ sinceMessage = "within"
  /\ nextIntent = 1
  /\ accepted = <<>>
  /\ pausedIntents = {}
  /\ lastHash = NoReport
  /\ droppedAt = NoHash
  /\ lobbyTimer = "unset"
  /\ lobbyTurns = 0
  /\ gameStop = 0
  /\ lobbies = <<>>
  /\ awaiting = 0
  /\ lock = NoLock
  /\ heartbeatTimer = [t \in Tabs |-> "idle"]
  /\ isPunished = [t \in Tabs |-> FALSE]
  /\ punishmentCount = [t \in Tabs |-> 0]
  /\ storageEvents = [t \in Tabs |-> {}]

(* ------------------- ClientGameRunner: inbound turn ------------------ *)
\* mutant: a turn is taken only while the worker has nothing outstanding
TurnAcceptedWhenIdle(n) == turnsSeen = n /\ workerDone = Len(handed)

\* ClientGameRunner.ts:374  `this.turnsSeen !== message.turn.turnNumber`
TurnAccepted(n) == turnsSeen = n

\* ClientGameRunner.ts:374-381, the branch taken once hasJoined is set
DeliverTurn(t) ==
  IF TurnAccepted(t.turnNumber)
  THEN /\ handed' = Append(handed, t)
       /\ turnsSeen' = turnsSeen + 1
       /\ UNCHANGED wrongTurn
  ELSE /\ wrongTurn' = [have |-> turnsSeen, received |-> t.turnNumber]
       /\ UNCHANGED <<handed, turnsSeen>>

(* ---------------------------- LocalServer ---------------------------- *)
\* mutant: the timer ignores turnsExecuted
CanEmitNoBackPressure ==
  sinceTurnStart > ScaledInterval(replaySpeedMultiplier)

\* InputHandler.ts:1139-1142, the condition of the turn-check timer
CanEmit ==
  /\ turnsExecuted = Len(turns)
  /\ sinceTurnStart > ScaledInterval(replaySpeedMultiplier)

\* InputHandler.ts:1306  `if (this.paused) return`
EndTurnPaused == paused

\* InputHandler.ts:1311  `this.replayTurns.length > 0`
InReplayBranch == Len(replayTurns) > 0

\* InputHandler.ts:1313  `this.turns.length >= this.replayTurns.length`
ReplayExhausted == Len(turns) >= Len(replayTurns)

\* InputHandler.ts:1318 / 1324: the intents sealed into the next turn
SealedIntents ==
  IF InReplayBranch THEN replayTurns[Len(turns) + 1].intents ELSE intents

\* mutant: numbering starts at one
NextTurnNumberFromOne == Len(turns) + 1

\* InputHandler.ts:1323  `turnNumber: this.turns.length`
NextTurnNumber == Len(turns)

\* mutant: the buffer is not reset after sealing
KeptIntents == intents

\* InputHandler.ts:1331  `this.intents = []`
ClearedIntents == <<>>

\* InputHandler.ts:1352-1421  LocalServer.endGame
EndGame ==
  /\ timerOn' = FALSE
  /\ archiveUploads' = IF hasGameRecord THEN archiveUploads ELSE archiveUploads + 1

\* InputHandler.ts:1304-1338  LocalServer.endTurn, with the client's
\* onmessage callback that clientMessage() invokes synchronously
EndTurn ==
  IF EndTurnPaused
  THEN UNCHANGED <<turns, intents, timerOn, archiveUploads, handed, turnsSeen,
                   wrongTurn>>
  ELSE IF InReplayBranch /\ ReplayExhausted
  THEN EndGame /\ UNCHANGED <<turns, intents, handed, turnsSeen, wrongTurn>>
  ELSE LET pastTurn == MkTurn(NextTurnNumber, SealedIntents)
       IN /\ Len(turns) < MaxTurns
          /\ turns' = Append(turns, pastTurn)
          /\ intents' = ClearedIntents
          /\ DeliverTurn(pastTurn)
          /\ UNCHANGED <<timerOn, archiveUploads>>

\* InputHandler.ts:1130-1147  the setInterval callback of LocalServer.start
TurnCheck ==
  /\ isLocal /\ timerOn
  /\ CanEmit
  /\ sinceTurnStart' = 0
  /\ EndTurn
  /\ UNCHANGED <<mode, otherVars, started, gameRecordTurns, replayTurns, paused,
                 replaySpeedMultiplier, turnsExecuted, desyncs, isActive,
                 hasJoined, workerDone, transportVars, histVars, sessionVars>>

\* the wall clock advances
Advance ==
  /\ isLocal /\ started
  /\ sinceTurnStart < MaxElapsed
  /\ sinceTurnStart' = Min(sinceTurnStart + ClockStep, MaxElapsed)
  /\ UNCHANGED <<mode, otherVars, started, gameRecordTurns, replayTurns, turns, intents,
                 paused, replaySpeedMultiplier, turnsExecuted, timerOn,
                 archiveUploads, desyncs, runnerVars, transportVars, histVars,
                 sessionVars>>

\* mutant: the paused check is missing
AcceptsIntentWhilePaused == ~hasGameRecord

\* InputHandler.ts:1213-1220: an intent message is taken into the buffer
AcceptsIntent == ~hasGameRecord /\ ~paused

\* part_007:917-931 sendIntent (isLocal) -> sendMsg -> LocalServer.onMessage,
\* type "intent" (InputHandler.ts:1211-1223); a replay returns at once
SubmitIntentLocal ==
  /\ isLocal /\ started
  /\ nextIntent <= MaxIntents
  /\ IF hasGameRecord
     THEN UNCHANGED <<intents, accepted, nextIntent, pausedIntents>>
     ELSE /\ nextIntent' = nextIntent + 1
          /\ IF AcceptsIntent
             THEN /\ intents' = Append(intents, nextIntent)
                  /\ accepted' = Append(accepted, nextIntent)
             ELSE UNCHANGED <<intents, accepted>>
          /\ pausedIntents' =
               IF paused THEN pausedIntents \cup {nextIntent} ELSE pausedIntents
  /\ UNCHANGED <<mode, otherVars, started, gameRecordTurns, replayTurns, turns, paused,
                 replaySpeedMultiplier, turnsExecuted, sinceTurnStart, timerOn,
                 archiveUploads, desyncs, runnerVars, transportVars, lastHash,
                 sessionVars>>

\* part_007:799-809 onPauseGameEvent -> LocalServer.pause / resume
PauseGame(p) ==
  /\ isLocal /\ started
  /\ paused' = p
  /\ UNCHANGED <<mode, otherVars, started, gameRecordTurns, replayTurns, turns, intents,
                 replaySpeedMultiplier, turnsExecuted, sinceTurnStart, timerOn,
                 archiveUploads, desyncs, runnerVars, transportVars, histVars,
                 sessionVars>>

\* InputHandler.ts:1150-1152  ReplaySpeedChangeEvent listener
ReplaySpeedChange(m) ==
  /\ isLocal /\ started
  /\ replaySpeedMultiplier' = m
  /\ UNCHANGED <<mode, otherVars, started, gameRecordTurns, replayTurns, turns, intents,
                 paused, turnsExecuted, sinceTurnStart, timerOn,
                 archiveUploads, desyncs, runnerVars, transportVars, histVars,
                 sessionVars>>

\* mutant: an absent hash is not recognised as absent
ArchivedHashMissingOnlyZero(h) == h = 0

\* InputHandler.ts:1242  `!archivedHash`
ArchivedHashMissing(h) == h = NoHash \/ h = 0

\* mutant: every reported hash is retained
HashSampledAlways(k) == k >= 0

\* InputHandler.ts:1230  `clientMsg.turnNumber % 100 === 0`
HashSampled(k) == k % HashSampleInterval = 0

\* ClientGameRunner.ts:300-303: transport.turnComplete() runs before the
\* SendHashEvents are emitted, so LocalServer.turnsExecuted already counts
\* the turn when its hash report reaches LocalServer.onMessage
CompletionsAtReport == turnsExecuted'

Report(k, h, o) ==
  [turn |-> k, hash |-> h, outcome |-> o, executed |-> CompletionsAtReport]

\* InputHandler.ts:1226-1270  LocalServer.onMessage, type "hash"
OnHashLocal(k, h) ==
  IF ~hasGameRecord
  THEN /\ turns' = IF HashSampled(k) /\ k < Len(turns)
                   THEN [turns EXCEPT ![k + 1].hash = h] ELSE turns
       /\ lastHash' = Report(k, h, IF HashSampled(k) THEN "stored" ELSE "skipped")
       /\ UNCHANGED desyncs
  ELSE IF k >= Len(replayTurns)
  THEN \* replayTurns[k] is undefined: reading .hash throws a TypeError
       /\ lastHash' = Report(k, h, "threw")
       /\ UNCHANGED <<turns, desyncs>>
  ELSE LET archivedHash == replayTurns[k + 1].hash
       IN IF ArchivedHashMissing(archivedHash)
          THEN /\ lastHash' = Report(k, h, "notchecked")
               /\ UNCHANGED <<turns, desyncs>>
          ELSE IF archivedHash # h
          THEN /\ desyncs' = desyncs \cup
                    {[turn |-> k, correctHash |-> archivedHash, yourHash |-> h]}
               /\ lastHash' = Report(k, h, "desync")
               /\ UNCHANGED turns
          ELSE /\ lastHash' = Report(k, h, "verified")
               /\ UNCHANGED <<turns, desyncs>>

(* ------------------------- Transport (remote) ------------------------ *)
Join(n) == <<"join", n>>
HashMsg(k, h) == <<"hash", k, h>>

\* part_007:486-494: the order in which onopen transmits the buffer
\* (`this.buffer.pop()` takes the most recently buffered message first)
FlushOrder(b) == Reverse(b)

\* mutant: the socket is dropped with its handlers in place
HandlersAfterKillKept == TRUE

\* part_007:971-974: killExistingSocket sets onmessage, onopen, onclose and
\* onerror to null, so no handler is left on the socket
HandlersAfterKill == FALSE

\* a socket that is closed and has no handler left is of no account
Track(r) == IF r.state = "CLOSED" /\ ~r.handlers THEN NoSocket ELSE r

\* part_007:965-982  killExistingSocket: what becomes of a socket whose
\* readyState is s (only an OPEN socket is closed, lines 977-979)
KillExistingSocket(s) ==
  IF s = "null" THEN NoSocket
  ELSE Track([state |-> IF s = "OPEN" THEN "CLOSING" ELSE s,
              handlers |-> HandlersAfterKill])

\* part_007:466-535  connectRemote from the creation of the new WebSocket
\* (wire holds what was transmitted on the current socket)
NewSocket ==
  /\ socket' = "CONNECTING"
  /\ onclose' = "reconnect"
  /\ wire' = <<>>
  /\ refused' = FALSE

\* part_007:458-535  connectRemote
ConnectRemote ==
  /\ superseded' = KillExistingSocket(socket)
  /\ NewSocket

\* what a call of sendMsg may change
sendVars == <<socket, onclose, buffer, wire, refused, superseded>>

\* part_007:938-959  sendMsg in remote mode
SendMsg(msg) ==
  IF socket = "null"
  THEN UNCHANGED sendVars
  ELSE IF socket = "CLOSED"
  THEN \* lines 951-953: this.socket is set to null before connectRemote,
       \* so killExistingSocket returns at once (lines 967-969)
       /\ superseded' = [state |-> "CLOSED", handlers |-> TRUE]
       /\ NewSocket
       /\ buffer' = Append(buffer, msg)
  ELSE \* socket.send: transmits when OPEN, discards when CLOSING,
       \* throws InvalidStateError when CONNECTING
       /\ wire' = IF socket = "OPEN" THEN Append(wire, msg) ELSE wire
       /\ UNCHANGED <<socket, onclose, buffer, refused, superseded>>

\* part_007:816 / 836 / 918  `this.isLocal || this.socket?.readyState === WebSocket.OPEN`
SendsWhenOpen == isLocal \/ socket = "OPEN"

\* part_007:822-828 / 842-848 / 925-930: the else branch only logs
NotOpenLogged == UNCHANGED sendVars

\* part_007:577-597  leaveGame in remote mode
LeaveGameRemote ==
  /\ UNCHANGED <<wire, refused, superseded>>
  /\ IF socket = "null"
     THEN UNCHANGED <<socket, onclose>>
     ELSE /\ socket' = IF socket = "OPEN" THEN "CLOSING" ELSE socket
          /\ onclose' = "noop"

(* ---------------------- ClientGameRunner lifecycle ------------------- *)
\* ClientGameRunner.ts:80-140 joinLobby, local mode: transport.connect
\* creates a LocalServer (part_007:438-450) and starts it; its `start`
\* message makes the lobby's onmessage create the game (lines 110-127)
JoinLobbyLocal ==
  /\ isLocal /\ lobbyTimer = "unset"
  /\ lobbyTimer' = "on"
  /\ UNCHANGED <<gameVars, inboundVars, clientVars, tabVars, lobbyTurns>>

\* ClientGameRunner.ts:260-385 start(), local mode: Transport.connectLocal
\* (part_007:438-450) replaces this.localServer by a new LocalServer and
\* starts it (InputHandler.ts:1128-1178)
StartLocal ==
  /\ isLocal /\ ~started
  /\ lobbyTimer # "unset"
  /\ started' = TRUE
  /\ isActive' = TRUE
  /\ timerOn' = TRUE
  /\ replayTurns' = IF hasGameRecord THEN gameRecordTurns ELSE <<>>
  /\ hasJoined' = TRUE
  /\ UNCHANGED <<mode, otherVars, gameRecordTurns, turns, intents, paused,
                 replaySpeedMultiplier, turnsExecuted, sinceTurnStart,
                 archiveUploads, desyncs, turnsSeen, handed, workerDone,
                 wrongTurn, transportVars, histVars, sessionVars>>

\* ClientGameRunner.ts:260-385 start(), remote mode: Transport.connectRemote
StartRemote ==
  /\ ~isLocal /\ ~started
  /\ started' = TRUE
  /\ isActive' = TRUE
  /\ ConnectRemote
  /\ watchdog' = "pending"
  /\ sinceMessage' = "within"
  /\ UNCHANGED <<mode, otherVars, gameRecordTurns, lsVars, turnsSeen, hasJoined, handed,
                 workerDone, wrongTurn, buffer, histVars>>

\* mutant: the completion signal is forwarded in every mode
TurnCompleteAlways == TRUE

\* part_007:549-553  Transport.turnComplete acts `if (this.isLocal)`
TurnCompleteActs == isLocal

\* ClientGameRunner.ts:387-397  stop(), reached with isActive set
Stop ==
  /\ isActive' = FALSE
  /\ IF isLocal
     THEN EndGame
          /\ UNCHANGED <<socket, onclose, wire, refused, superseded, watchdog>>
     ELSE /\ LeaveGameRemote
          /\ watchdog' = IF watchdog = "on" THEN "off" ELSE watchdog
          /\ UNCHANGED <<timerOn, archiveUploads>>

\* the simulation worker (WorkerClient): it answers the handed turns one
\* at a time, in hand-over order
WorkerPending == workerDone < Len(handed)

WorkerNextTurn == handed[workerDone + 1].turnNumber

\* ClientGameRunner.ts:285-310  the callback given to worker.start, run by
\* the worker once per handed turn, in hand-over order
WorkerUpdate(err, h) ==
  /\ isActive
  /\ WorkerPending
  /\ LET k == WorkerNextTurn
     IN IF err
        THEN /\ Stop
             /\ UNCHANGED <<workerDone, turnsExecuted, turns, desyncs, lastHash,
                            buffer>>
        ELSE /\ workerDone' = workerDone + 1
             /\ UNCHANGED <<isActive, timerOn, archiveUploads, watchdog>>
             /\ turnsExecuted' = IF TurnCompleteActs THEN turnsExecuted + 1
                                 ELSE turnsExecuted
             /\ IF isLocal
                THEN /\ IF h = NoHash
                        THEN UNCHANGED <<turns, desyncs, lastHash>>
                        ELSE OnHashLocal(k, h)
                     /\ UNCHANGED sendVars
                ELSE /\ UNCHANGED <<turns, desyncs, lastHash>>
                     /\ IF h = NoHash
                        THEN UNCHANGED sendVars
                        ELSE IF SendsWhenOpen
                        THEN /\ Len(wire) < MaxWire
                             /\ SendMsg(HashMsg(k, h))
                        ELSE NotOpenLogged
  /\ UNCHANGED <<mode, otherVars, started, gameRecordTurns, replayTurns, intents, paused,
                 replaySpeedMultiplier, sinceTurnStart, turnsSeen, hasJoined,
                 handed, wrongTurn, nextIntent, accepted,
                 pausedIntents, sinceMessage>>

(* ------------------ ClientGameRunner: remote messages ---------------- *)
\* ClientGameRunner.ts:333  `turn.turnNumber - 1 > this.turnsSeen`
GapRemains(n, seen) == n - 1 > seen

\* ClientGameRunner.ts:333-339: synthesized empty turns; yields <<turnsSeen, handed>>
RECURSIVE FillGap(_, _, _)
FillGap(n, seen, hd) ==
  IF GapRemains(n, seen)
  THEN FillGap(n, seen + 1, Append(hd, MkTurn(seen, <<>>)))
  ELSE <<seen, hd>>

\* ClientGameRunner.ts:329-342: the loop over message.turns; yields <<turnsSeen, handed>>
RECURSIVE CatchUp(_, _, _)
CatchUp(batch, seen, hd) ==
  IF batch = <<>> THEN <<seen, hd>>
  ELSE LET turn == Head(batch)
       IN IF turn.turnNumber < seen
          THEN CatchUp(Tail(batch), seen, hd)
          ELSE LET filled == FillGap(turn.turnNumber, seen, hd)
               IN CatchUp(Tail(batch), filled[1] + 1, Append(filled[2], turn))

ServerTurnOf(n) == MkTurn(n, <<ServerIntent>>)

\* turns[] of a `start` message: strictly increasing turn numbers
Batches ==
  {b \in SeqsUpTo(0..MaxTurnNumber, MaxBatch) :
     \A i \in 1..(Len(b) - 1) : b[i] < b[i + 1]}

BatchTurns(b) == [i \in 1..Len(b) |-> ServerTurnOf(b[i])]

\* the current socket dispatches message events only while it is OPEN: a
\* message that arrives after close() was called is discarded
Receiving == socket = "OPEN"

\* part_007:499-513 socket.onmessage -> ClientGameRunner.ts:324-343, type "start"
ServerStart(b) ==
  /\ ~isLocal /\ Receiving
  /\ Len(handed) < MaxHanded
  /\ hasJoined' = TRUE
  /\ LET r == CatchUp(BatchTurns(b), turnsSeen, handed)
     IN /\ turnsSeen' = r[1]
        /\ handed' = r[2]
  /\ sinceMessage' = "within"
  /\ UNCHANGED <<mode, otherVars, started, gameRecordTurns, lsVars, isActive, workerDone,
                 wrongTurn, transportVars, histVars, refused, superseded,
                 watchdog>>

\* ClientGameRunner.ts:324-325, 369-382  onmessage, type "turn"
OnMessageTurn(n) ==
  /\ IF ~hasJoined
     THEN /\ Len(wire) < MaxWire
          /\ SendMsg(Join(0))
          /\ UNCHANGED <<handed, turnsSeen, wrongTurn>>
     ELSE /\ DeliverTurn(ServerTurnOf(n))
          /\ UNCHANGED sendVars
  /\ sinceMessage' = "within"
  /\ UNCHANGED <<mode, otherVars, started, gameRecordTurns, lsVars, isActive, hasJoined,
                 workerDone, histVars, watchdog>>

\* part_007:499-513 socket.onmessage -> ClientGameRunner.ts:369-382, type "turn"
ServerTurn(n) ==
  /\ ~isLocal /\ Receiving
  /\ Len(handed) < MaxHanded
  /\ OnMessageTurn(n)

(* --------------------------- inbound frames -------------------------- *)
\* event.data of a message event: text that is no JSON, or a JSON value
\* with a `type` and, for "turn", the number of the turn
ServerMessageTypes == {"turn", "start", "desync"}

Frames ==
  [json : BOOLEAN, type : ServerMessageTypes \cup {"unknown"},
   turnNumber : 0..MaxTurnNumber]

\* part_007:501  JSON.parse(event.data) returns instead of throwing
JsonParses(f) == f.json

\* mutant: every JSON value passes validation
SchemaAcceptsAll(f) == TRUE

\* part_007:502-503  ServerMessageSchema.safeParse(parsed).success
SchemaAccepts(f) == f.type \in ServerMessageTypes

\* ClientGameRunner.ts:324-382 onmessage with a message that is neither
\* `start` nor `turn`: only lastMessageTime is set (line 325)
ServerOther ==
  /\ ~isLocal /\ Receiving
  /\ sinceMessage' = "within"
  /\ UNCHANGED <<mode, otherVars, started, gameRecordTurns, lsVars, runnerVars,
                 transportVars, histVars, refused, superseded, watchdog>>

\* part_007:499-513 socket.onmessage
SocketMessage(f) ==
  IF JsonParses(f) /\ SchemaAccepts(f)
  THEN CASE f.type = "turn" -> ServerTurn(f.turnNumber)
         [] f.type = "start" -> ServerStart(<<>>)
         [] OTHER -> ServerOther
  ELSE /\ ~isLocal /\ Receiving
       /\ droppedAt' = turnsSeen
       /\ UNCHANGED <<gameVars, lobbyVars, clientVars, tabVars>>

\* mutant: the runner announces the turns the worker has completed
OnConnectLastTurnCompleted == workerDone

\* ClientGameRunner.ts:322  `this.transport.joinGame(this.turnsSeen)`
OnConnectLastTurn == turnsSeen

\* part_007:478-497 socket.onopen, with the runner's onconnect
\* (ClientGameRunner.ts:320-323), which sends on the socket just opened
SocketOpen ==
  /\ ~isLocal /\ socket = "CONNECTING"
  /\ socket' = "OPEN"
  /\ wire' = (wire \o FlushOrder(buffer)) \o <<Join(OnConnectLastTurn)>>
  /\ buffer' = <<>>
  /\ UNCHANGED <<mode, otherVars, started, gameRecordTurns, lsVars, runnerVars, onclose,
                 histVars, sessionVars>>

\* mutant: a normal close reconnects as well
ReconnectsUnlessRefused(code) == code # 1002

\* part_007:527-533: the close codes for which onclose calls reconnect()
ReconnectsOnClose(code) == code # 1002 /\ code # 1000

\* part_007:523-534 socket.onclose (replaced by a no-op in leaveGame, part_007:596);
\* a handshake that fails closes with code 1006
SocketClose(code) ==
  /\ ~isLocal /\ socket \in {"CONNECTING", "OPEN", "CLOSING"}
  /\ socket = "CONNECTING" => code = 1006
  /\ IF onclose = "reconnect" /\ ReconnectsOnClose(code)
     THEN \* reconnect() finds the socket CLOSED
          /\ superseded' = KillExistingSocket("CLOSED")
          /\ NewSocket
     ELSE /\ socket' = "CLOSED"
          /\ refused' = (onclose = "reconnect" /\ code = 1002)
          /\ UNCHANGED <<onclose, wire, superseded>>
  /\ UNCHANGED <<mode, otherVars, started, gameRecordTurns, lsVars, runnerVars, buffer,
                 histVars, watchdog, sinceMessage>>

\* part_007:560-571 joinGame(numTurns), a public method, called by client code
JoinGame(n) ==
  /\ ~isLocal /\ started
  /\ Len(buffer) < MaxBuffer
  /\ Len(wire) < MaxWire
  /\ SendMsg(Join(n))
  /\ UNCHANGED <<mode, otherVars, started, gameRecordTurns, lsVars, runnerVars, histVars,
                 watchdog, sinceMessage>>

\* part_007:577-597 leaveGame, called by the stop function joinLobby returns
\* (ClientGameRunner.ts:141-144)
LeaveLobby ==
  /\ ~isLocal /\ started
  /\ onclose # "noop"
  /\ LeaveGameRemote
  /\ UNCHANGED <<mode, otherVars, started, gameRecordTurns, lsVars, runnerVars, buffer,
                 histVars, watchdog, sinceMessage>>

(* ---------------------- connection check (watchdog) ------------------ *)
\* rest: the tuple without its last element (Array.prototype.pop)
Popped(b) == SubSeq(b, 1, Len(b) - 1)

IntentMsg(i) == <<"intent", i>>

\* part_007:917-931 sendIntent in remote mode
SendIntentRemote ==
  /\ ~isLocal /\ started
  /\ nextIntent <= MaxIntents
  /\ nextIntent' = nextIntent + 1
  /\ IF SendsWhenOpen
     THEN /\ Len(wire) < MaxWire
          /\ SendMsg(IntentMsg(nextIntent))
     ELSE NotOpenLogged
  /\ UNCHANGED <<mode, otherVars, started, gameRecordTurns, lsVars, runnerVars, accepted,
                 pausedIntents, lastHash, watchdog, sinceMessage>>

\* part_007:541-543 reconnect -> connect -> connectRemote
Reconnect == ConnectRemote

\* mutant: the check leaves an open socket alone
WindowExpiredAndNotOpen == sinceMessage # "within" /\ socket # "OPEN"

\* ClientGameRunner.ts:673  `timeSinceLastMessage > 5000`
WindowExpired == sinceMessage # "within"

\* ClientGameRunner.ts:263-268: the 20 s timeout of start() fires and sets
\* connectionCheckInterval; stop() does not cancel the timeout
WatchdogArm ==
  /\ ~isLocal /\ watchdog = "pending"
  /\ watchdog' = "on"
  /\ UNCHANGED <<mode, otherVars, started, gameRecordTurns, lsVars, runnerVars,
                 transportVars, histVars, refused, superseded, sinceMessage>>

\* time passes without an inbound message.  An armed check runs once per
\* check period, so a further period passes with the window still expired
\* only if the check is not armed or let the expiry pass
Silence ==
  /\ ~isLocal /\ started
  /\ \/ sinceMessage = "within" /\ sinceMessage' = "expired"
     \/ /\ sinceMessage = "expired"
        /\ watchdog # "on" \/ ~WindowExpired
        /\ sinceMessage' = "overdue"
  /\ UNCHANGED <<mode, otherVars, started, gameRecordTurns, lsVars, runnerVars,
                 transportVars, histVars, refused, superseded, watchdog>>

\* ClientGameRunner.ts:667-680 onConnectionCheck, run by connectionCheckInterval
ConnectionCheck ==
  /\ ~isLocal /\ watchdog = "on"
  /\ IF WindowExpired
     THEN /\ sinceMessage' = "within"
          /\ Reconnect
     ELSE UNCHANGED <<sinceMessage, socket, onclose, wire, refused, superseded>>
  /\ UNCHANGED <<mode, otherVars, started, gameRecordTurns, lsVars, runnerVars, buffer,
                 histVars, watchdog>>

(* -------------------- events of a superseded socket ------------------ *)
\* part_007:478-497 onopen run by a socket that is not this.socket any more:
\* the buffer is flushed to, and onconnect sends the join on, the current
\* socket; socket.send throws while that is CONNECTING and discards while
\* it is CLOSING or CLOSED
StaleOnOpen ==
  CASE socket = "OPEN" ->
         /\ wire' = (wire \o FlushOrder(buffer)) \o <<Join(OnConnectLastTurn)>>
         /\ buffer' = <<>>
         /\ superseded' = [superseded EXCEPT !.state = "OPEN"]
         /\ UNCHANGED <<socket, onclose, refused>>
    [] socket = "CONNECTING" ->
         /\ buffer' = IF buffer = <<>> THEN buffer ELSE Popped(buffer)
         /\ superseded' = [superseded EXCEPT !.state = "OPEN"]
         /\ UNCHANGED <<socket, onclose, wire, refused>>
    [] socket = "CLOSING" ->
         /\ buffer' = <<>>
         /\ superseded' = [superseded EXCEPT !.state = "OPEN"]
         /\ UNCHANGED <<socket, onclose, wire, refused>>
    [] OTHER ->
         /\ superseded' = [state |-> "CLOSED", handlers |-> TRUE]
         /\ NewSocket
         /\ buffer' = <<Join(OnConnectLastTurn)>>

\* the open event of the superseded socket
StaleOpen ==
  /\ ~isLocal /\ superseded.state = "CONNECTING"
  /\ IF superseded.handlers
     THEN StaleOnOpen
     ELSE /\ superseded' = [superseded EXCEPT !.state = "OPEN"]
          /\ UNCHANGED <<socket, onclose, buffer, wire, refused>>
  /\ UNCHANGED <<mode, otherVars, started, gameRecordTurns, lsVars, runnerVars,
                 histVars, watchdog, sinceMessage>>

\* a message event of the superseded socket (part_007:499-513)
StaleMessage(n) ==
  /\ ~isLocal /\ superseded.state = "OPEN"
  /\ Len(handed) < MaxHanded
  /\ IF superseded.handlers THEN OnMessageTurn(n) ELSE UNCHANGED vars

\* the close event of the superseded socket (part_007:523-534)
StaleClose(code) ==
  /\ ~isLocal /\ superseded.state \in {"CONNECTING", "OPEN", "CLOSING"}
  /\ superseded.state = "CONNECTING" => code = 1006
  /\ IF superseded.handlers /\ ReconnectsOnClose(code)
     THEN Reconnect
     ELSE /\ superseded' = Track([superseded EXCEPT !.state = "CLOSED"])
          /\ UNCHANGED <<socket, onclose, wire, refused>>
  /\ UNCHANGED <<mode, otherVars, started, gameRecordTurns, lsVars, runnerVars,
                 buffer, histVars, watchdog, sinceMessage>>

(* ------------------------- Client (the page) ------------------------- *)
\* calling the stop function of session i (ClientGameRunner.ts:141-144)
Stopped(ls, i) == [ls EXCEPT ![i] = "stopped"]

\* part_005:537-544  handleJoinLobby up to its await: an existing game is
\* stopped, this.gameStop keeps the function
HandleJoinLobby ==
  /\ awaiting + Len(lobbies) < MaxLobbies
  /\ lobbies' = IF gameStop # 0 THEN Stopped(lobbies, gameStop) ELSE lobbies
  /\ awaiting' = awaiting + 1
  /\ UNCHANGED <<gameVars, inboundVars, lobbyVars, tabVars, gameStop>>

\* part_005:544-627  handleJoinLobby after its await: joinLobby creates the
\* session and this.gameStop is overwritten with its stop function
JoinLobbyResumed ==
  /\ awaiting > 0
  /\ awaiting' = awaiting - 1
  /\ lobbies' = Append(lobbies, "live")
  /\ gameStop' = Len(lobbies) + 1
  /\ UNCHANGED <<gameVars, inboundVars, lobbyVars, tabVars>>

\* part_005:629-637  handleLeaveLobby
HandleLeaveLobby ==
  /\ IF gameStop = 0
     THEN UNCHANGED <<gameStop, lobbies>>
     ELSE /\ lobbies' = Stopped(lobbies, gameStop)
          /\ gameStop' = 0
  /\ UNCHANGED <<gameVars, inboundVars, lobbyVars, tabVars, awaiting>>

(* -------------------------- MultiTabDetector ------------------------- *)
\* part_009:223-228 writeLock: the item is set to {owner: tabId, timestamp:
\* Date.now()}; the browser queues a storage event in every other tab
WriteLock(t) ==
  /\ lock' = [owner |-> t, fresh |-> TRUE]
  /\ storageEvents' =
       [u \in Tabs |-> IF u = t THEN storageEvents[u] ELSE storageEvents[u] \cup {t}]

\* part_009:200-208 applyPunishment
ApplyPunishment(t) ==
  /\ punishmentCount[t] < MaxPunishments
  /\ isPunished' = [isPunished EXCEPT ![t] = TRUE]
  /\ punishmentCount' = [punishmentCount EXCEPT ![t] = @ + 1]

\* part_009:69-76 startMonitoring
StartMonitoring(t) ==
  /\ heartbeatTimer[t] = "idle"
  /\ WriteLock(t)
  /\ heartbeatTimer' = [heartbeatTimer EXCEPT ![t] = "on"]
  /\ UNCHANGED <<gameVars, inboundVars, lobbyVars, clientVars, isPunished,
                 punishmentCount>>

\* part_009:124-128: the lock may be taken or renewed
MayTakeLock(t) == lock = NoLock \/ lock.owner = t \/ ~lock.fresh

\* part_009:120-137 heartbeat, run by the interval startMonitoring set
Heartbeat(t) ==
  /\ heartbeatTimer[t] = "on"
  /\ IF MayTakeLock(t)
     THEN /\ WriteLock(t)
          /\ isPunished' = [isPunished EXCEPT ![t] = FALSE]
          /\ UNCHANGED punishmentCount
     ELSE /\ IF ~isPunished[t]
             THEN ApplyPunishment(t)
             ELSE UNCHANGED <<isPunished, punishmentCount>>
          /\ UNCHANGED <<lock, storageEvents>>
  /\ UNCHANGED <<gameVars, inboundVars, lobbyVars, clientVars, heartbeatTimer>>

\* part_009:153-166 onStorageEvent, for the lock value written by tab o.
\* The listener was added in the constructor (line 53) and is still
\* registered after stopMonitoring: removeEventListener (lines 99-100) is
\* given a new bound function, which matches no registered listener
OnStorageEvent(t, o) ==
  /\ o \in storageEvents[t]
  /\ storageEvents' = [storageEvents EXCEPT ![t] = @ \ {o}]
  /\ IF o # t /\ ~isPunished[t]
     THEN ApplyPunishment(t)
     ELSE UNCHANGED <<isPunished, punishmentCount>>
  /\ UNCHANGED <<gameVars, inboundVars, lobbyVars, clientVars, lock,
                 heartbeatTimer>>

\* part_009:205-207 the timeout that ends the punishment
PenaltyEnds(t) ==
  /\ isPunished[t]
  /\ isPunished' = [isPunished EXCEPT ![t] = FALSE]
  /\ UNCHANGED <<gameVars, inboundVars, lobbyVars, clientVars, lock,
                 heartbeatTimer, punishmentCount, storageEvents>>

\* part_009:89-101 stopMonitoring
StopMonitoring(t) ==
  /\ heartbeatTimer[t] = "on"
  /\ heartbeatTimer' = [heartbeatTimer EXCEPT ![t] = "stopped"]
  /\ lock' = IF lock.owner = t THEN NoLock ELSE lock
  /\ UNCHANGED <<gameVars, inboundVars, lobbyVars, clientVars, isPunished,
                 punishmentCount, storageEvents>>

\* staleThresholdMs pass without the lock being written (part_009:127)
LockAges ==
  /\ lock.fresh
  /\ lock' = [lock EXCEPT !.fresh = FALSE]
  /\ UNCHANGED <<gameVars, inboundVars, lobbyVars, clientVars, heartbeatTimer,
                 isPunished, punishmentCount, storageEvents>>

(* --------------------------- specifications ------------------------ *)
\* a single-player or replay session (Transport.isLocal)
InitLocal == Init /\ mode # "remote"
InitSingle == Init /\ mode = "single"
InitReplay == Init /\ mode = "replay"

NextLocal ==
  \/ JoinLobbyLocal
  \/ StartLocal
  \/ TurnCheck
  \/ Advance
  \/ SubmitIntentLocal
  \/ \E p \in BOOLEAN : PauseGame(p)
  \/ \E m \in ReplaySpeedMultiplier : ReplaySpeedChange(m)
  \/ \E err \in BOOLEAN, h \in {NoHash} \cup Hashes : WorkerUpdate(err, h)

SpecLocal == InitLocal /\ [][NextLocal]_vars
SpecSingle == InitSingle /\ [][NextLocal]_vars
SpecReplay == InitReplay /\ [][NextLocal]_vars

\* a multiplayer session (the WebSocket transport)
InitRemote == Init /\ mode = "remote"

NextRemote ==
  \/ StartRemote
  \/ \E err \in BOOLEAN, h \in {NoHash} \cup Hashes : WorkerUpdate(err, h)
  \/ \E b \in Batches : ServerStart(b)
  \/ \E n \in 0..MaxTurnNumber : ServerTurn(n)
  \/ SocketOpen
  \/ \E code \in CloseCodes : SocketClose(code)
  \/ \E n \in {0, turnsSeen} : JoinGame(n)
  \/ LeaveLobby

SpecRemote == InitRemote /\ [][NextRemote]_vars

\* a multiplayer session as ClientGameRunner drives it, with its timers
NextSession ==
  \/ StartRemote
  \/ \E err \in BOOLEAN : WorkerUpdate(err, NoHash)
  \/ ServerStart(<<>>)
  \/ \E n \in 0..MaxTurnNumber : ServerTurn(n)
  \/ SocketOpen
  \/ \E code \in CloseCodes : SocketClose(code)
  \/ LeaveLobby
  \/ SendIntentRemote
  \/ WatchdogArm
  \/ Silence
  \/ ConnectionCheck

SpecSession == InitRemote /\ [][NextSession]_vars

\* the same session with what the runtime schedules by itself: the timers
\* of start() fire and the worker answers the turns it was handed
SpecSessionFair ==
  /\ SpecSession
  /\ WF_vars(WatchdogArm)
  /\ WF_vars(ConnectionCheck)
  /\ WF_vars(WorkerUpdate(FALSE, NoHash))

\* ClientGameRunner.ts:141-144: the function joinLobby returns (Client.gameStop,
\* part_005:197-199, 540-543, 630-635), local mode: Transport.leaveGame
\* (part_007:577-581) calls LocalServer.endGame
GameStopLocal ==
  /\ isLocal /\ lobbyTimer # "unset"
  /\ archiveUploads < MaxUploads
  /\ IF started
     THEN EndGame /\ UNCHANGED lobbyTimer
     ELSE \* this.localServer is still the LocalServer of the lobby
          /\ lobbyTimer' = "off"
          /\ archiveUploads' =
               IF hasGameRecord THEN archiveUploads ELSE archiveUploads + 1
          /\ UNCHANGED timerOn
  /\ UNCHANGED <<mode, inboundVars, clientVars, tabVars, lobbyTurns, started,
                 gameRecordTurns,
                 replayTurns, turns, intents, paused, replaySpeedMultiplier,
                 turnsExecuted, sinceTurnStart, desyncs, runnerVars,
                 transportVars, histVars, sessionVars>>

\* InputHandler.ts:1130-1147 the timer of the lobby's LocalServer: its turn
\* goes to the lobby's onmessage (ClientGameRunner.ts:102-139), which has no
\* branch for `turn`; nobody calls its turnComplete, so it emits one turn
LobbyTurnCheck ==
  /\ isLocal /\ lobbyTimer = "on"
  /\ lobbyTurns = 0
  /\ lobbyTurns' = lobbyTurns + 1
  /\ UNCHANGED <<gameVars, inboundVars, clientVars, tabVars, lobbyTimer>>

\* a single-player or replay session from joinLobby on, with the page's
\* stop function
NextLocalSession ==
  \/ JoinLobbyLocal
  \/ StartLocal
  \/ TurnCheck
  \/ Advance
  \/ SubmitIntentLocal
  \/ \E err \in BOOLEAN : WorkerUpdate(err, NoHash)
  \/ GameStopLocal
  \/ LobbyTurnCheck

SpecLocalSession == InitLocal /\ [][NextLocalSession]_vars

\* a multiplayer session fed with raw frames
NextInbound ==
  \/ StartRemote
  \/ SocketOpen
  \/ \E f \in Frames : SocketMessage(f)
  \/ WorkerUpdate(FALSE, NoHash)
  \/ SocketClose(1006)
  \/ WatchdogArm
  \/ Silence
  \/ ConnectionCheck

SpecInbound == InitRemote /\ [][NextInbound]_vars

\* a multiplayer session with the sockets it has replaced
NextSockets ==
  \/ StartRemote
  \/ SocketOpen
  \/ ServerStart(<<>>)
  \/ \E n \in 0..MaxTurnNumber : ServerTurn(n)
  \/ \E code \in CloseCodes : SocketClose(code)
  \/ \E n \in {0, turnsSeen} : JoinGame(n)
  \/ WatchdogArm
  \/ Silence
  \/ ConnectionCheck
  \/ StaleOpen
  \/ \E n \in 0..MaxTurnNumber : StaleMessage(n)
  \/ \E code \in CloseCodes : StaleClose(code)

SpecSockets == InitRemote /\ [][NextSockets]_vars

\* the page's join-lobby and leave-lobby events
NextClient ==
  \/ HandleJoinLobby
  \/ JoinLobbyResumed
  \/ HandleLeaveLobby

SpecClient == InitRemote /\ [][NextClient]_vars

\* the tabs of one browser, each with its MultiTabDetector
NextTabs ==
  \/ \E t \in Tabs : StartMonitoring(t)
  \/ \E t \in Tabs : Heartbeat(t)
  \/ \E t, o \in Tabs : OnStorageEvent(t, o)
  \/ \E t \in Tabs : PenaltyEnds(t)
  \/ \E t \in Tabs : StopMonitoring(t)
  \/ LockAges

SpecTabs == InitRemote /\ [][NextTabs]_vars

Next ==
  \/ NextLocal \/ NextRemote \/ NextSession \/ NextLocalSession
  \/ NextInbound \/ NextSockets \/ NextClient \/ NextTabs

Spec == Init /\ [][Next]_vars

(* ============================ properties ============================ *)
TurnNumbers(ts) == [i \in 1..Len(ts) |-> ts[i].turnNumber]

\* C1: in remote mode the turns handed to the simulation worker carry the
\* turnNumbers 0, 1, 2, ... with no number skipped and none handed twice.
C1_HandedGapless ==
  mode = "remote" => \A i \in 1..Len(handed) : handed[i].turnNumber = i - 1

\* C2: when the channel opens, the buffered messages are transmitted in the
\* order in which they were buffered, then onOpen runs (it sends the join).
C2_BufferFlushedFifo ==
  [][SocketOpen => wire' = (wire \o buffer) \o <<Join(turnsSeen)>>]_vars

\* C3: a local turn source emits a turn only when the scaled interval has
\* elapsed and every emitted turn was completed; emitted turns exceed
\* completed turns by at most one.
C3_EmitAfterCompletion ==
  /\ [](Len(turns) - turnsExecuted <= 1)
  /\ [][Len(turns') > Len(turns) =>
          /\ turnsExecuted = Len(turns)
          /\ sinceTurnStart > ScaledInterval(replaySpeedMultiplier)]_vars

C3_Witness ==
  /\ isLocal
  /\ Len(turns) >= 2
  /\ turnsExecuted = Len(turns) - 1
  /\ replaySpeedMultiplier = "slow"

C5_PausedEmitsNothing ==
  /\ [](\A i \in 1..Len(turns) : Range(turns[i].intents) \cap pausedIntents = {})
  /\ [](Range(intents) \cap pausedIntents = {})
  /\ [][paused => (Len(turns') = Len(turns) /\ handed' = handed)]_vars

C5_Witness ==
  /\ mode = "single"
  /\ \E i \in 1..Len(turns) :
       \E a \in Range(turns[i].intents), d \in pausedIntents : a > d

\* C6: in replay mode the emitted turns are a prefix of the archived turn
\* list: emitted turn N has turnNumber N and the intents of archived turn N.
C6_ReplayIsPrefix ==
  mode = "replay" =>
    /\ Len(turns) <= Len(gameRecordTurns)
    /\ \A i \in 1..Len(turns) :
         /\ turns[i].turnNumber = i - 1
         /\ i <= Len(gameRecordTurns) => turns[i].intents = gameRecordTurns[i].intents

\* C7: in replay mode with an archive of length L >= 0 at most L turns are
\* emitted; the emission attempt made once L turns are out stops the turn
\* timer, and nothing is emitted afterwards.
C7_ReplayEndsAtArchiveEnd ==
  /\ [](mode = "replay" => Len(turns) <= Len(gameRecordTurns))
  /\ [][(mode = "replay" /\ TurnCheck /\ ~paused
           /\ Len(turns) >= Len(gameRecordTurns)) => ~timerOn']_vars
  /\ [][(mode = "replay" /\ started /\ ~timerOn) => Len(turns') = Len(turns)]_vars

ArchivedHashOf(k) ==
  IF k >= 0 /\ k < Len(gameRecordTurns) THEN gameRecordTurns[k + 1].hash ELSE NoHash

\* C8: in replay mode, whenever the hash reported for turn K differs from
\* the hash archived for turn K, a desync message naming K, the archived
\* hash and the reported hash has been delivered to the client.
C8_MismatchReported ==
  (mode = "replay" /\ lastHash # NoReport
     /\ ArchivedHashOf(lastHash.turn) # NoHash
     /\ ArchivedHashOf(lastHash.turn) # lastHash.hash) =>
    [turn |-> lastHash.turn, correctHash |-> ArchivedHashOf(lastHash.turn),
     yourHash |-> lastHash.hash] \in desyncs

\* C9: in replay mode a hash report for a turn without archived hash
\* produces no desync message, is neither verified nor failed, and leaves
\* the turn source's turns, intents, pause flag, speed and timer as they were.
C9_MissingHashNotChecked ==
  [][(mode = "replay" /\ lastHash' # lastHash
        /\ ArchivedHashOf(lastHash'.turn) = NoHash) =>
       /\ desyncs' = desyncs
       /\ lastHash'.outcome \notin {"verified", "desync"}
       /\ UNCHANGED <<replayTurns, turns, intents, paused,
                      replaySpeedMultiplier, sinceTurnStart, timerOn,
                      archiveUploads>>]_vars

C9_Witness ==
  /\ mode = "replay"
  /\ lastHash.outcome = "notchecked"
  /\ lastHash.turn < Len(gameRecordTurns)
  /\ ArchivedHashOf(lastHash.turn) = NoHash

\* C10: in single-player mode every emitted turn holds exactly the intents
\* accepted since the previous emission, in arrival order, each accepted
\* intent is in at most one turn, and the buffer is empty after an emission.
C10_TurnsPartitionAccepted ==
  /\ [](mode = "single" => Flatten(turns) \o intents = accepted)
  /\ [][(mode = "single" /\ Len(turns') > Len(turns)) =>
          /\ intents' = <<>>
          /\ turns'[Len(turns')].intents = intents]_vars

C10_Witness ==
  /\ mode = "single"
  /\ intents = <<>>
  /\ \E i \in 1..Len(turns) : Len(turns[i].intents) = 2
  /\ \E j \in 1..Len(turns) : turns[j].intents = <<>>

\* C11: the k-th turn a local turn source emits (k = 0, 1, 2, ...) has
\* turnNumber k, whatever the interleaving of timer ticks, pauses and
\* completions; each emission appends exactly one turn and rewrites none.
C11_LocalTurnsNumbered ==
  /\ [](isLocal => \A i \in 1..Len(turns) : turns[i].turnNumber = i - 1)
  /\ [][(isLocal /\ Len(turns') # Len(turns)) =>
          /\ Len(turns') = Len(turns) + 1
          /\ TurnNumbers(turns') = Append(TurnNumbers(turns), Len(turns))]_vars

C11_Witness ==
  /\ mode = "single"
  /\ paused
  /\ pausedIntents # {}
  /\ TurnNumbers(turns) = <<0, 1, 2>>
  /\ turnsExecuted = 2

\* C12: every turn handed over in remote mode carries the number the
\* turns-seen counter had at that moment (the gap below a batch turn being
\* filled first), so after every hand-off the counter is the handed turn's
\* turnNumber + 1.
C12_GapFilled ==
  /\ [](mode = "remote" /\ handed # <<>> =>
          turnsSeen = handed[Len(handed)].turnNumber + 1)
  /\ [][(mode = "remote" /\ handed' # handed) =>
          \A i \in (Len(handed) + 1)..Len(handed') :
             handed'[i].turnNumber = turnsSeen + (i - Len(handed) - 1)]_vars

\* C13: a `start` batch all of whose turns were already handed over hands
\* over nothing and leaves the turns-seen counter as it was.
C13_CatchUpIdempotent ==
  [][\A b \in Batches :
       (ServerStart(b) /\ Range(b) \subseteq Range(TurnNumbers(handed))) =>
         (handed' = handed /\ turnsSeen' = turnsSeen)]_vars

\* a live turn numbered above the turns-seen counter n was refused
Behind(n) ==
  /\ mode = "remote" /\ isActive /\ hasJoined
  /\ turnsSeen = n
  /\ wrongTurn.have = n /\ wrongTurn.received > n

\* C14: a remote participant that is behind does not stay at the same
\* turns-seen value forever while later live turns keep arriving: it
\* eventually advances (or the game is stopped).
C14_BehindCatchesUp ==
  \A n \in 0..(MaxTurnNumber - 1) :
    ([]<><<\E m \in (n + 1)..MaxTurnNumber : ServerTurn(m)>>_vars) =>
      (Behind(n) ~> (turnsSeen > n \/ ~isActive))

\* C15: the join message sent when the channel opens or reopens during a
\* game carries lastTurn = the turns-seen counter, and the counter never
\* decreases: no reconnect resets it.
C15_JoinCarriesTurnsSeen ==
  /\ [][(mode = "remote" /\ socket = "CONNECTING" /\ socket' = "OPEN") =>
          /\ wire' # <<>>
          /\ wire'[Len(wire')] = Join(turnsSeen)
          /\ turnsSeen' = turnsSeen]_vars
  /\ [][turnsSeen' >= turnsSeen]_vars

C15_Witness ==
  /\ mode = "remote"
  /\ socket = "OPEN"
  /\ turnsSeen = 2
  /\ wire = <<Join(2)>>

\* C16: an intent given to the transport while the remote socket is closing
\* or closed (the caller not having left the game) is placed in the
\* outbound buffer and a reconnect is begun.
C16_NotOpenBuffered ==
  [][(mode = "remote" /\ nextIntent' # nextIntent /\ onclose = "reconnect"
        /\ socket \in {"CLOSING", "CLOSED"}) =>
       /\ buffer' = Append(buffer, IntentMsg(nextIntent))
       /\ socket' = "CONNECTING"]_vars

\* C17: once the socket was closed with the policy-violation code 1002
\* (connection refused), no new connection attempt is made: the socket
\* stays closed whatever handler, send or timer runs.
C17_RefusedIsTerminal ==
  [][(mode = "remote" /\ refused) => (socket' = "CLOSED" /\ refused')]_vars

\* C18: while the transport's close handler is installed, a close of the
\* current socket with a code other than 1000 and 1002 starts a new
\* connection attempt (however many came before); a close with code 1000
\* or 1002 starts none.
C18_AbnormalCloseReconnects ==
  [][\A code \in CloseCodes :
       (SocketClose(code) /\ onclose = "reconnect") =>
         IF code \in {1000, 1002}
         THEN socket' = "CLOSED"
         ELSE socket' = "CONNECTING" /\ onclose' = "reconnect" /\ wire' = <<>>]_vars

C18_Witness ==
  /\ mode = "remote"
  /\ socket = "CONNECTING"
  /\ onclose = "reconnect"
  /\ watchdog = "pending"
  /\ handed # <<>>

C20_LeftIsFinal ==
  [][(mode = "remote" /\ onclose = "noop") =>
       /\ onclose' = "noop"
       /\ socket' # "CONNECTING" \/ socket = "CONNECTING"
       /\ \A i \in 1..Len(wire') : i > Len(wire) => wire'[i][1] # "join"]_vars

\* C21: after the simulation worker reported an unrecoverable error the
\* driver halts: the failing turn is not signalled as complete, and no
\* further turn is handed to the worker, in local and in remote mode,
\* whatever messages or timer events occur afterwards.
C21_HaltsAfterError ==
  /\ [][(isActive /\ ~isActive') =>
          (turnsExecuted' = turnsExecuted /\ handed' = handed)]_vars
  /\ [][(started /\ ~isActive) =>
          (turnsExecuted' = turnsExecuted /\ handed' = handed)]_vars

\* C22: the turn source never observes the completion of turn N before the
\* hash report for turn N: when the report for turn N reaches it, it has
\* counted the completions of turns 0 .. N-1 only.
C22_HashBeforeComplete ==
  (isLocal /\ lastHash # NoReport) => lastHash.executed <= lastHash.turn

\* C23: for one single-player game the game record is uploaded at most
\* once, under every sequence of stop, leaveGame and endGame calls.
C23_ArchivedOnce ==
  mode = "single" => archiveUploads <= 1

\* C24: in single-player mode a reported hash is stored verbatim on the
\* committed turn of the same number only when that number is divisible by
\* 100; it is never compared, no desync message is produced, and a hash
\* report changes no turn's intents or turnNumber.
C24_SampledHashStored ==
  /\ [](mode = "single" => desyncs = {})
  /\ [](mode = "single" =>
          \A i \in 1..Len(turns) :
            turns[i].hash # NoHash => (i - 1) % HashSampleInterval = 0)
  /\ [][(mode = "single" /\ lastHash' # lastHash) =>
          /\ lastHash'.outcome \in {"stored", "skipped"}
          /\ Len(turns') = Len(turns)
          /\ \A i \in 1..Len(turns) :
               /\ turns'[i].turnNumber = turns[i].turnNumber
               /\ turns'[i].intents = turns[i].intents
               /\ turns'[i].hash =
                    IF i - 1 = lastHash'.turn /\ (i - 1) % HashSampleInterval = 0
                    THEN lastHash'.hash ELSE turns[i].hash]_vars

C24_Witness ==
  /\ mode = "single"
  /\ Len(turns) >= 2
  /\ turns[1].hash = MaxHash
  /\ turns[1].intents # <<>>
  /\ turns[2].hash = NoHash
  /\ lastHash.turn = 1 /\ lastHash.hash = 0 /\ lastHash.outcome = "skipped"

Malformed(f) == ~f.json \/ f.type = "unknown"

\* C25: an inbound message that fails JSON parsing or schema validation is
\* dropped before reaching the driver: no turn is handed over, the
\* turns-seen counter and the driver's last-message time stay as they
\* were, the socket and its handlers too, so later messages are processed.
C25_MalformedDropped ==
  /\ [][\A f \in Frames : (Malformed(f) /\ SocketMessage(f)) =>
          (UNCHANGED gameVars /\ droppedAt' = turnsSeen)]_vars
  /\ [][\A n \in 0..MaxTurnNumber :
          (droppedAt # NoHash /\ hasJoined /\ turnsSeen = n
             /\ SocketMessage([json |-> TRUE, type |-> "turn", turnNumber |-> n])) =>
            (turnsSeen' = n + 1 /\ handed' = Append(handed, ServerTurnOf(n)))]_vars

C25_Witness ==
  /\ mode = "remote"
  /\ droppedAt = 0
  /\ hasJoined
  /\ turnsSeen = 2
  /\ Len(handed) = 2
  /\ sinceMessage = "expired"

\* C26 (as claimed): whenever the transport replaces its socket, all
\* handlers of the superseded socket have been removed.
C26_HandlersRemoved ==
  mode = "remote" => ~superseded.handlers

\* C26 (amended): a socket replaced by connectRemote has lost its handlers,
\* and a socket replaced by the send path keeps them but is CLOSED; so no
\* event of a superseded socket reaches the callbacks: it hands over no
\* turn, sends nothing, and starts no reconnect.
C26_SupersededSilent ==
  /\ [](mode = "remote" /\ superseded.handlers => superseded.state = "CLOSED")
  /\ [][(StaleOpen \/ (\E n \in 0..MaxTurnNumber : StaleMessage(n))
            \/ (\E code \in CloseCodes : StaleClose(code))) =>
          UNCHANGED <<lsVars, runnerVars, transportVars, histVars, refused,
                      watchdog, sinceMessage>>]_vars

C26_Witness ==
  /\ mode = "remote"
  /\ superseded = [state |-> "OPEN", handlers |-> FALSE]
  /\ socket = "OPEN"
  /\ hasJoined
  /\ turnsSeen >= 1

\* C27: in local mode at most one LocalServer turn-check timer is running
\* per game session at any time, and after leaveGame none is running.
C27_OneTimer ==
  /\ [](isLocal => ~(lobbyTimer = "on" /\ timerOn))
  /\ [][(GameStopLocal \/ (isLocal /\ isActive /\ ~isActive')) =>
          (lobbyTimer' # "on" /\ ~timerOn')]_vars

\* C28: at most one game session is live at a time: under every
\* interleaving of join-lobby and leave-lobby events every session other
\* than the one gameStop refers to has been stopped.
C28_OneLiveSession ==
  \A i \in 1..Len(lobbies) : lobbies[i] = "live" => gameStop = i

\* C29: a fresh multi-tab lock owned by one tab is never overwritten by
\* another tab: a tab writes the lock only when no lock exists, when it
\* already owns it, or when the existing lock is stale.
C29_FreshLockKept ==
  [][\A t \in Tabs :
       (lock' # lock /\ lock'.owner = t) =>
         (lock = NoLock \/ lock.owner = t \/ ~lock.fresh)]_vars

\* C30: after stopMonitoring() no storage event and no timer tick invokes
\* the penalty callback of that detector or writes the lock for its tab.
C30_StoppedIsQuiet ==
  [][\A t \in Tabs :
       heartbeatTimer[t] = "stopped" =>
         /\ punishmentCount'[t] = punishmentCount[t]
         /\ lock' # lock => lock'.owner # t]_vars

====
